---- MODULE Spec2Model ----
(***************************************************************************)
(* fireway: the migrate() engine of src/index.js, as a state machine.      *)
(*                                                                         *)
(* One invocation of migrate() is a run r.  Its position (pc) moves at the *)
(* await points of the code; every action is the synchronous stretch of    *)
(* code between two awaits.  The Firestore backend is the history          *)
(* collection 'fireway' plus the writes migration code commits.            *)
(***************************************************************************)
EXTENDS Integers, Sequences, FiniteSets

\* ---------------------------------------------------------------- bounds
MaxRuns == 2
MaxOps == 2
MaxLate == 2
MaxDir == 3

Runs == 1..MaxRuns

\* The five intercepted entry points (index.js 78-102).
Kinds == {"create", "set", "update", "delete", "add"}

SeqUpTo(S, n) == UNION {[1..k -> S] : k \in 0..n}

\* ------------------------------------------------------------- filenames
\* A directory entry after filename.split('__'): the numeric components of
\* the version token, the description token ("" when absent), and whether
\* the name starts with a dot.
FileA == [dot |-> FALSE, vtok |-> <<1, 2>>, desc |-> "a"]
FileB == [dot |-> FALSE, vtok |-> <<1, 10, 0>>, desc |-> "b"]
FileC == [dot |-> FALSE, vtok |-> <<2>>, desc |-> "c"]
Pool == {FileA, FileB, FileC}

\* Entries that are not well-formed migrations: ".3__d.js", "README",
\* "draft__x.js" (a description, no version), "3.js" (a version, no
\* description) and "v2.0__c2.js", which coerces to 2.0.0 as FileC does.
FileDot == [dot |-> TRUE, vtok |-> <<3>>, desc |-> "d"]
FileText == [dot |-> FALSE, vtok |-> <<>>, desc |-> ""]
FileDraft == [dot |-> FALSE, vtok |-> <<>>, desc |-> "x"]
FileBare == [dot |-> FALSE, vtok |-> <<3>>, desc |-> ""]
FileTwin == [dot |-> FALSE, vtok |-> <<2, 0>>, desc |-> "c2"]
ScanPool == Pool \cup {FileDot, FileText, FileDraft, FileBare, FileTwin}

VARIABLES
  dir,            \* the migration directory: a set of filenames
  script,         \* per filename: the awaited operations its migrate() issues
  lateScript,     \* per filename: operations it starts and does not await
  history,        \* the 'fireway' collection: a set of HistoryRecords
  committed,      \* migration writes that reached the backend, per run and kind
  statsMap,       \* the registry: run -> [dryrun]
  proxied,        \* proxyWritableMethods ran
  listeners,      \* the listeners on process: <<run, event>> of each capture
  handles,        \* scheduled work not yet run, pending promises a session follows
  exitCode,       \* <<>> while the process runs, <<code>> once it has exited
  pc,             \* position of each migrate() invocation
  opts,           \* its options: [dryrun, forceWait]
  entries,        \* what readdir returned and the scan has not looked at yet
  filenames,      \* the directory entries an invocation in progress has kept
  stats,          \* its RunStats
  files,          \* its candidate / pending files
  idx,            \* index in files of the current migration
  pos,            \* how many awaited operations the current migration issued
  latest,         \* the latest HistoryRecord it read: <<>> or <<record>>
  installed_rank,
  success,
  rejection,      \* the reason the session's capture stored, "undefined" at first
  err,            \* the error the invocation threw, "" when none
  result,         \* the RunStats it returned: <<>> or <<stats>>
  batch,          \* the WriteBatch a migration builds: [open, ops, queue, file]
  console,        \* what the invocation printed: [ops, async, semver, waiting]
  events,         \* log of entry-point invocations, settlements, appends, errors
  issued,         \* operations migration code issued on this run's client
  snap            \* the history at the call of the invocation, the directory as listed

globals == <<dir, script, lateScript, history, committed, statsMap, proxied,
             listeners, handles, exitCode>>
locals == <<pc, opts, entries, filenames, stats, files, idx, pos, latest, installed_rank,
            success, rejection, err, result>>
io == <<batch, console>>
ghosts == <<events, issued, snap>>
vars == <<globals, locals, io, ghosts>>

\* ----------------------------------------------------------------- semver
\* semver.coerce(filenameVersion): null (<<>>) without a numeric component,
\* otherwise major.minor.patch with missing components set to 0.
Coerce(vtok) ==
  IF Len(vtok) = 0 THEN <<>>
  ELSE <<vtok[1],
         IF Len(vtok) >= 2 THEN vtok[2] ELSE 0,
         IF Len(vtok) >= 3 THEN vtok[3] ELSE 0>>

\* semver.compare(v1, v2): -1, 0 or 1, major first, then minor, then patch.
SemverCompare(v1, v2) ==
  IF v1[1] # v2[1] THEN (IF v1[1] < v2[1] THEN -1 ELSE 1)
  ELSE IF v1[2] # v2[2] THEN (IF v1[2] < v2[2] THEN -1 ELSE 1)
  ELSE IF v1[3] # v2[3] THEN (IF v1[3] < v2[3] THEN -1 ELSE 1)
  ELSE 0

\* semver.gte taken for semver.gt.
SemverGte(v1, v2) == SemverCompare(v1, v2) >= 0

SemverGt(v1, v2) == SemverCompare(v1, v2) > 0

\* ------------------------------------------------------------------ scan
\* The order in which readdir returns the entries of the directory.
Listings(d) ==
  {s \in [1..Cardinality(d) -> d] : \A i, j \in 1..Cardinality(d) : i # j => s[i] # s[j]}

\* filenames.map(...).filter(Boolean): the candidates in listing order, or the
\* first error thrown.  acc plays versionToFile: the versions seen so far.
\* warned: the files the 'valid semver version' warning was logged for.
RECURSIVE ScanFrom(_, _, _, _)
ScanFrom(listing, i, acc, warned) ==
  IF i > Len(listing) THEN [error |-> "", files |-> acc, warned |-> warned]
  ELSE LET filename == listing[i]
           coerced == Coerce(filename.vtok)
       IN IF filename.dot THEN ScanFrom(listing, i + 1, acc, warned)
          ELSE IF coerced = <<>>
               THEN ScanFrom(listing, i + 1, acc,
                             IF filename.desc # "" THEN Append(warned, filename) ELSE warned)
          ELSE IF filename.desc = "" THEN [error |-> "format", files |-> <<>>, warned |-> warned]
          ELSE IF \E k \in 1..Len(acc) : acc[k].version = coerced
               THEN [error |-> "duplicate", files |-> <<>>, warned |-> warned]
          ELSE ScanFrom(listing, i + 1,
                        Append(acc, [filename |-> filename, version |-> coerced,
                                     description |-> filename.desc]),
                        warned)

\* Two files of one version not told apart: no error raised for them.
ParseFilesNoDuplicate(listing) ==
  LET parsed == ScanFrom(listing, 1, <<>>, <<>>)
  IN IF parsed.error = "duplicate" THEN [parsed EXCEPT !.error = ""] ELSE parsed

ParseFiles(listing) == ScanFrom(listing, 1, <<>>, <<>>)

\* files.filter(file => semver.gt(file.version, latest.version))
RECURSIVE FilterGt(_, _)
FilterGt(fs, v) ==
  IF fs = <<>> THEN <<>>
  ELSE (IF SemverGt(Head(fs).version, v) THEN <<Head(fs)>> ELSE <<>>) \o FilterGt(Tail(fs), v)

\* files.sort((f1, f2) => semver.compare(f1.version, f2.version)): a stable sort.
RECURSIVE InsertFile(_, _)
InsertFile(f, sorted) ==
  IF sorted = <<>> THEN <<f>>
  ELSE IF SemverCompare(Head(sorted).version, f.version) <= 0
       THEN <<Head(sorted)>> \o InsertFile(f, Tail(sorted))
       ELSE <<f>> \o sorted

\* The files left in the order the listing gave them.
SortFilesNone(fs) == fs

RECURSIVE SortFiles(_)
SortFiles(fs) ==
  IF fs = <<>> THEN <<>>
  ELSE InsertFile(fs[Len(fs)], SortFiles(SubSeq(fs, 1, Len(fs) - 1)))

\* ----------------------------------------------------------------- stats
NewStats == [scannedFiles |-> 0, executedFiles |-> 0, created |-> 0, set |-> 0,
             updated |-> 0, deleted |-> 0, added |-> 0, frozen |-> FALSE]

NoCounts == [k \in Kinds |-> 0]

\* The RunStats counter each wrapped entry point increments.
CounterOf(kind) ==
  CASE kind = "create" -> "created"
    [] kind = "set" -> "set"
    [] kind = "update" -> "updated"
    [] kind = "delete" -> "deleted"
    [] kind = "add" -> "added"

\* What migrate() returns: stats, whose frozen key was deleted.
Returned(st) == [scannedFiles |-> st.scannedFiles, executedFiles |-> st.executedFiles,
                 created |-> st.created, set |-> st.set, updated |-> st.updated,
                 deleted |-> st.deleted, added |-> st.added]

\* ---------------------------------------------------------------- output
\* Nothing printed yet.  ops: the operation lines of the interceptor
\* (lines 80-101), by kind; async: the 'open async calls' warnings (line 168),
\* each the set of source locations it lists; semver: the files warned about
\* (line 258); waiting: the 'Waiting for async calls' notices (line 160).
\* The progress lines of migrate() are not kept.
NoOutput == [ops |-> <<>>, async |-> <<>>, semver |-> <<>>, waiting |-> 0]

\* Lines 216-218: log prints its arguments when debug is set.
Log(debug, out, line) == IF debug THEN Append(out, line) ELSE out

RECURSIVE LogAll(_, _, _)
LogAll(debug, out, lines) ==
  IF lines = <<>> THEN out ELSE LogAll(debug, Log(debug, out, Head(lines)), Tail(lines))

\* ----------------------------------------------------------- interceptor
\* The statsMap entry whose stats object is the one stamped on run r's client.
Claimed(r) == r \in DOMAIN statsMap

\* Whether the log function of that entry prints.
LogOf(r) == Claimed(r) /\ statsMap[r].log

\* The frozen flag not looked at.
CountFrozenToo(st, kind) == [st EXCEPT ![CounterOf(kind)] = @ + 1]

\* fn.call(this, args, (stats.frozen ? {} : stats), log)
Count(st, kind) ==
  IF st.frozen THEN st ELSE [st EXCEPT ![CounterOf(kind)] = @ + 1]

\* The marker CollectionReference.add leaves on the document not looked at.
MitmBatchAll(r, kind, marker) ==
  IF Claimed(r) THEN <<kind>> ELSE <<>>

\* A wrapped WriteBatch method on run r's client: what it pushes on
\* _fireway_queue.  marker is doc[skipWriteBatch].
MitmBatch(r, kind, marker) ==
  IF Claimed(r) /\ ~marker THEN <<kind>> ELSE <<>>

\* _commit: "Empty the queue".
RECURSIVE DrainQueue(_, _)
DrainQueue(st, queue) ==
  IF queue = <<>> THEN st ELSE DrainQueue(Count(st, Head(queue)), Tail(queue))

\* The dryrun entry not looked at.
SuppressedNever(r) == FALSE

\* The dryrun flag of any registered invocation taken for the owner's.
SuppressedAny(r) == \E q \in DOMAIN statsMap : statsMap[q].dryrun

\* _commit: the dryrun entry of the owning run returns [] instead of committing.
Suppressed(r) == Claimed(r) /\ statsMap[r].dryrun

\* One document-level call on run r's client, from the wrapped entry point to
\* _commit: the stats afterwards, the operation lines handed to log and whether
\* the write is sent to the backend.  CollectionReference.add counts, logs,
\* marks the document and delegates to create.
ClientWrite(r, kind) ==
  LET isAdd == kind = "add"
      marker == isAdd /\ Claimed(r)
      st1 == IF marker THEN Count(stats[r], "add") ELSE stats[r]
      queue == MitmBatch(r, IF isAdd THEN "create" ELSE kind, marker)
  IN [stats |-> DrainQueue(st1, queue),
      lines |-> (IF marker THEN <<"add">> ELSE <<>>) \o queue,
      sent |-> ~Suppressed(r)]

\* firestore.batch() in the code of file f: a WriteBatch with no operations and
\* no _fireway_queue, not committed.
NewBatch(f) == [open |-> TRUE, ops |-> <<>>, queue |-> <<>>, file |-> <<f>>]

\* No batch the migration could commit: none built yet, or the one built was
\* committed.
NoBatch == [open |-> FALSE, ops |-> <<>>, queue |-> <<>>, file |-> <<>>]

\* The wrapped methods of WriteBatch (lines 78-96).
BatchKinds == Kinds \ {"add"}

\* --------------------------------------------------------------- history
\* collection.orderBy('installed_rank', 'desc').limit(1).get()
LatestDocs(h) ==
  IF h = {} THEN {<<>>}
  ELSE {<<d>> : d \in {x \in h : \A y \in h : y.installed_rank <= x.installed_rank}}

\* The outcome of the migration not carried into the record.
HistoryRecordOk(rank, file, ok) ==
  [id |-> <<rank, file.version, file.description>>, installed_rank |-> rank,
   version |-> file.version, description |-> file.description,
   script |-> file.filename, success |-> TRUE]

HistoryRecord(rank, file, ok) ==
  [id |-> <<rank, file.version, file.description>>, installed_rank |-> rank,
   version |-> file.version, description |-> file.description,
   script |-> file.filename, success |-> ok]

\* The success flag of the latest record not looked at.
RefusesNever(lat) == FALSE

\* The test of line 344 inverted.
RefusesInverted(lat) == lat # <<>> /\ lat[1].success

\* Line 344: a latest record that is not a success stops the invocation.
Refuses(lat) == lat # <<>> /\ ~lat[1].success

\* An empty history counted on from 0 instead of -1.
StartRankZero(lat) == IF lat # <<>> THEN lat[1].installed_rank ELSE 0

\* Lines 348-354: the rank the invocation counts on from.
StartRank(lat) == IF lat # <<>> THEN lat[1].installed_rank ELSE -1

\* Lines 349-357: the files after the latest version, sorted by semver.
Pending(fs, lat) == SortFiles(IF lat # <<>> THEN FilterGt(fs, lat[1].version) ELSE fs)

\* Every record written to one and the same document.
PutDocOne(h, rec) == {rec}

\* collection.doc(id).set(record)
PutDoc(h, rec) == {d \in h : d.id # rec.id} \cup {rec}

\* --------------------------------------------------------- async errors
\* The two process events a tracking session listens to (lines 180-181).
ProcessEvents == {"unhandledRejection", "uncaughtException"}

\* Ways asynchronous work nobody awaits fails: a promise rejected with an
\* Error or with no reason, a callback that throws an Error or undefined.
ErrKinds == {"reject", "reject_undefined", "throw", "throw_undefined"}

EventOf(kind) ==
  IF kind \in {"reject", "reject_undefined"} THEN "unhandledRejection" ELSE "uncaughtException"

ReasonOf(kind) ==
  IF kind \in {"reject", "throw"} THEN "Error" ELSE "undefined"

\* Whether process has a listener on the event.
Heard(event) == \E l \in listeners : l[2] = event

\* What process emits for a failure nobody handles.  An uncaught exception is
\* emitted as 'uncaughtException' with what was thrown.  An unhandled
\* rejection is emitted as 'unhandledRejection' with its reason when that
\* event has a listener; with none, Node (15 and later) raises it as an
\* uncaught exception, whose reason is an Error also when the promise was
\* rejected with no reason.
Raised(kind) ==
  IF EventOf(kind) = "unhandledRejection" /\ ~Heard("unhandledRejection")
  THEN [event |-> "uncaughtException", reason |-> "Error"]
  ELSE [event |-> EventOf(kind), reason |-> ReasonOf(kind)]

\* Line 192, if (rejection): the truthiness of the stored reason.
Truthy(v) == v \notin {"undefined", "null", "false", "0", ""}

\* ------------------------------------------------------------ invocation
InProgress(r) == pc[r] \notin {"idle", "done", "aborted", "exited"}

CurrentFile(r) == files[r][idx[r]]

\* Lines 180-191: the tracking session of the current migration is open, from
\* process.once to process.removeAllListeners; its hook is enabled from line
\* 148 to line 201.
InSession(r) == pc[r] \in {"running", "waiting", "woken", "grace"}

\* Lines 119-144: the sessions whose hook is enabled and whose file.path is the
\* path of f.  init runs for every asynchronous resource the process creates
\* and keeps those with a frame of that file on the stack, whichever
\* invocation is executing the file.
Hooks(f) == {q \in Runs : InSession(q) /\ CurrentFile(q).filename = f}

\* An asynchronous resource invocation r creates from file f while its entry
\* point runs, with the sessions that put it in their activeHandles; the
\* session of r is open then.  site is the statement of the file on the stack:
\* "timer" where the file schedules work it does not await, "call" where it
\* calls the client or is called.
Handle(r, f, n, kind, site) ==
  [run |-> r, file |-> f, n |-> n, kind |-> kind, site |-> site, by |-> Hooks(f) \cup {r}]

\* The promises of a call on the client of invocation r that code of file f
\* makes outside the awaited sequence of its entry point, from work it
\* scheduled or on a batch: the call has a frame of the file on the stack, so
\* they enter the activeHandles of every session whose hook is enabled on the
\* file at that moment, the one of r or not, and of no session when there is
\* none.
InFlight(r, f, n, kind) ==
  IF Hooks(f) = {} THEN {}
  ELSE {[run |-> r, file |-> f, n |-> n, kind |-> kind, site |-> "call", by |-> Hooks(f)]}

\* activeHandles of the tracking session run r has open: the resources created
\* from the current migration file since the hook was enabled that have not
\* resolved or run yet.
ActiveHandles(r) ==
  {h \in handles : r \in h.by /\ h.file = CurrentFile(r).filename}

\* The promise of run r's entry point (kind "entry", created at line 378) and
\* the promise of the operation the entry point awaits (kind "await").
OwnPromises(r) == {h \in handles : h.run = r /\ h.kind \in {"entry", "await"}}

\* The promise of the operation the entry point of run r awaits.
Awaited(r) == {h \in OwnPromises(r) : h.kind = "await"}

\* What handleCheck finds in activeHandles: when it is called the promises of
\* the entry point have resolved (promiseResolve, line 147).
Outstanding(r) == ActiveHandles(r) \ OwnPromises(r)

\* The handles deleted without emitting 'deleted'.
DeleteHandleSilent(hs) == pc

\* Lines 110-118: deleteHandle emits 'deleted' on the emitter of every session
\* that holds the handle, which resolves the promise a waiting handleCheck of
\* that session awaits.
DeleteHandle(hs) ==
  [q \in Runs |-> IF pc[q] = "waiting" /\ hs \cap ActiveHandles(q) # {}
                  THEN "woken" ELSE pc[q]]

\* migrate(), lines 206-235: the call.  The options are read, the stats of the
\* invocation are created and exists(dir) is awaited.
Migrate(r, dryrun, forceWait, debug) ==
  /\ pc[r] = "idle"
  /\ pc' = [pc EXCEPT ![r] = "exists"]
  /\ opts' = [opts EXCEPT ![r] = [dryrun |-> dryrun, forceWait |-> forceWait,
                                  debug |-> debug]]
  /\ stats' = [stats EXCEPT ![r] = NewStats]
  /\ snap' = [snap EXCEPT ![r] = <<[history |-> history, listed |-> {}]>>]
  /\ UNCHANGED globals
  /\ UNCHANGED <<entries, filenames, files, idx, pos, latest, installed_rank, success,
                 rejection, err, result>>
  /\ UNCHANGED io
  /\ UNCHANGED <<events, issued>>

\* Lines 235-240: exists(dir) resolved, the directory is there; readdir(dir)
\* is awaited.
Exists(r) ==
  /\ pc[r] = "exists"
  /\ pc' = [pc EXCEPT ![r] = "readdir"]
  /\ UNCHANGED globals
  /\ UNCHANGED <<opts, entries, filenames, stats, files, idx, pos, latest, installed_rank,
                 success, rejection, err, result>>
  /\ UNCHANGED io
  /\ UNCHANGED ghosts

\* migrate(), lines 246-290, the end of the scan: parse the filenames kept,
\* register the stats of this invocation and install the interceptor;
\* auth.getClient() is awaited.
Scan(r, names) ==
  LET parsed == ParseFiles(names) IN
  /\ console' = [console EXCEPT ![r].semver = LogAll(opts[r].debug, @, parsed.warned)]
  /\ IF parsed.error # ""
     THEN /\ pc' = [pc EXCEPT ![r] = "aborted"]
          /\ err' = [err EXCEPT ![r] = parsed.error]
          /\ filenames' = [filenames EXCEPT ![r] = <<>>]
          /\ UNCHANGED <<files, stats, statsMap, proxied>>
     ELSE /\ pc' = [pc EXCEPT ![r] = "auth"]
          /\ filenames' = [filenames EXCEPT ![r] = names]
          /\ files' = [files EXCEPT ![r] = parsed.files]
          /\ stats' = [stats EXCEPT ![r].scannedFiles = Len(parsed.files)]
          /\ statsMap' = [x \in DOMAIN statsMap \cup {r} |->
                            IF x = r THEN [dryrun |-> opts[r].dryrun, log |-> opts[r].debug]
                            ELSE statsMap[x]]
          /\ proxied' = TRUE
          /\ err' = err

\* Line 240: readdir(dir) resolved with the entries the directory has by now,
\* in some order; stat of the first one is awaited.  With no entry the scan
\* ends here.
ReadDir(r) ==
  /\ pc[r] = "readdir"
  /\ snap' = [snap EXCEPT ![r][1].listed = dir]
  /\ \E listing \in Listings(dir) :
       IF listing = <<>>
       THEN /\ Scan(r, <<>>)
            /\ entries' = entries
       ELSE /\ entries' = [entries EXCEPT ![r] = listing]
            /\ pc' = [pc EXCEPT ![r] = "stat"]
            /\ UNCHANGED <<filenames, files, stats, statsMap, proxied, err, console>>
  /\ UNCHANGED <<dir, script, lateScript, history, committed, listeners, handles, exitCode>>
  /\ UNCHANGED <<opts, idx, pos, latest, installed_rank, success, rejection, result>>
  /\ UNCHANGED batch
  /\ UNCHANGED <<events, issued>>

\* Lines 241-243: stat of the next entry resolved; no entry of the model is a
\* directory, so it is pushed on filenames.  After the last one the scan ends,
\* otherwise stat of the following entry is awaited.
Stat(r) ==
  /\ pc[r] = "stat"
  /\ entries' = [entries EXCEPT ![r] = Tail(@)]
  /\ IF Tail(entries[r]) = <<>>
     THEN Scan(r, Append(filenames[r], Head(entries[r])))
     ELSE /\ filenames' = [filenames EXCEPT ![r] = Append(@, Head(entries[r]))]
          /\ UNCHANGED <<pc, files, stats, statsMap, proxied, err, console>>
  /\ UNCHANGED <<dir, script, lateScript, history, committed, listeners, handles, exitCode>>
  /\ UNCHANGED <<opts, idx, pos, latest, installed_rank, success, rejection, result>>
  /\ UNCHANGED batch
  /\ UNCHANGED ghosts

\* Lines 292-323: auth.getClient() resolved; the impersonated credentials and
\* the secret manager are constructed (app is given, so line 307 is not run)
\* and getElasticsearchClient is awaited.
GetClient(r) ==
  /\ pc[r] = "auth"
  /\ pc' = [pc EXCEPT ![r] = "es"]
  /\ UNCHANGED globals
  /\ UNCHANGED <<opts, entries, filenames, stats, files, idx, pos, latest, installed_rank,
                 success, rejection, err, result>>
  /\ UNCHANGED io
  /\ UNCHANGED ghosts

\* Lines 323-340: getElasticsearchClient resolved; the Firestore client is
\* constructed and stamped with the stats of the invocation, and the query for
\* the latest record is awaited.
GetElasticsearchClient(r) ==
  /\ pc[r] = "es"
  /\ pc' = [pc EXCEPT ![r] = "query"]
  /\ UNCHANGED globals
  /\ UNCHANGED <<opts, entries, filenames, stats, files, idx, pos, latest, installed_rank,
                 success, rejection, err, result>>
  /\ UNCHANGED io
  /\ UNCHANGED ghosts

\* migrate(), lines 337-359: the query returned the latest record; refuse to
\* go on after a failed one, keep the newer files and sort them.
ReadHistory(r) ==
  /\ pc[r] = "query"
  /\ \E lat \in LatestDocs(history) :
       /\ latest' = [latest EXCEPT ![r] = lat]
       /\ IF Refuses(lat)
          THEN /\ pc' = [pc EXCEPT ![r] = "aborted"]
               /\ err' = [err EXCEPT ![r] = "failed_latest"]
               /\ filenames' = [filenames EXCEPT ![r] = <<>>]
               /\ UNCHANGED <<files, installed_rank, idx>>
          ELSE /\ pc' = [pc EXCEPT ![r] = "loop"]
               /\ filenames' = filenames
               /\ files' = [files EXCEPT ![r] = Pending(files[r], lat)]
               /\ installed_rank' = [installed_rank EXCEPT ![r] = StartRank(lat)]
               /\ idx' = [idx EXCEPT ![r] = 1]
               /\ err' = err
  /\ UNCHANGED globals
  /\ UNCHANGED <<opts, entries, stats, pos, success, rejection, result>>
  /\ UNCHANGED ghosts
  /\ UNCHANGED io

\* The batch invocation r follows is open and a callback its migration
\* scheduled is going to commit it.
Scheduled(r) ==
  /\ batch[r].open
  /\ \E h \in handles : /\ h.run = r /\ h.kind = "commit" /\ h.site = "timer"
                         /\ batch[r].file = <<h.file>>

\* The asynchronous operations file f starts without awaiting them.
LateHandles(r, f) ==
  {Handle(r, f, i, lateScript[f][i], "timer") : i \in 1..Len(lateScript[f])}

\* Lines 362-378: the module loads, trackAsync opens its session (hook,
\* 'unhandledRejection' capture) and the entry point is invoked: its promise
\* and what it starts without awaiting are created.  The entry point gets a
\* batch from firestore.batch(); one batch is followed at a time, so not while
\* the batch of an earlier migration waits for its scheduled commit.
Invoke(r) ==
  /\ pc[r] = "loop"
  /\ idx[r] <= Len(files[r])
  /\ pc' = [pc EXCEPT ![r] = "running"]
  /\ stats' = [stats EXCEPT ![r].executedFiles = @ + 1]
  /\ listeners' = listeners \cup {<<r, ev>> : ev \in ProcessEvents}
  /\ rejection' = [rejection EXCEPT ![r] = "undefined"]
  /\ batch' = IF Scheduled(r) THEN batch
              ELSE [batch EXCEPT ![r] = NewBatch(CurrentFile(r).filename)]
  /\ pos' = [pos EXCEPT ![r] = 0]
  /\ handles' = handles \cup {Handle(r, CurrentFile(r).filename, 0, "entry", "call")}
                        \cup LateHandles(r, CurrentFile(r).filename)
  /\ events' = [events EXCEPT ![r] = Append(@, [e |-> "invoke", v |-> CurrentFile(r).version])]
  /\ UNCHANGED <<dir, script, lateScript, history, committed, statsMap, proxied, exitCode>>
  /\ UNCHANGED <<opts, entries, filenames, files, idx, latest, installed_rank, success, err, result>>
  /\ UNCHANGED <<issued, snap>>
  /\ UNCHANGED console

\* Lines 366-372: require(file.path) throws and migrate() rethrows.
LoadFail(r) ==
  /\ pc[r] = "loop"
  /\ idx[r] <= Len(files[r])
  /\ pc' = [pc EXCEPT ![r] = "aborted"]
  /\ err' = [err EXCEPT ![r] = "load"]
  /\ filenames' = [filenames EXCEPT ![r] = <<>>]
  /\ stats' = [stats EXCEPT ![r].executedFiles = @ + 1]
  /\ UNCHANGED globals
  /\ UNCHANGED <<opts, entries, files, idx, pos, latest, installed_rank, success, rejection, result>>
  /\ UNCHANGED ghosts
  /\ UNCHANGED io

\* The backend after a write of the given kind by run r's migration code.
Commit(r, kind, sent) ==
  IF sent THEN [committed EXCEPT ![r][kind] = @ + 1] ELSE committed

\* The operation the entry point awaited, if any, resolved, and the migration
\* calls and awaits its next operation on the client it was handed: the call
\* goes through the interceptor and _commit and returns a promise.
MigOp(r) ==
  /\ pc[r] = "running"
  /\ pos[r] < Len(script[CurrentFile(r).filename])
  /\ LET kind == script[CurrentFile(r).filename][pos[r] + 1]
         w == ClientWrite(r, kind)
     IN /\ stats' = [stats EXCEPT ![r] = w.stats]
        /\ console' = [console EXCEPT ![r].ops = LogAll(LogOf(r), @, w.lines)]
        /\ committed' = Commit(r, kind, w.sent)
        /\ issued' = [issued EXCEPT ![r][kind] = @ + 1]
  /\ pos' = [pos EXCEPT ![r] = @ + 1]
  /\ handles' = (handles \ Awaited(r))
                  \cup {Handle(r, CurrentFile(r).filename, pos[r] + 1, "await", "call")}
  /\ pc' = DeleteHandle(Awaited(r))
  /\ UNCHANGED <<dir, script, lateScript, history, statsMap, proxied, listeners, exitCode>>
  /\ UNCHANGED <<opts, entries, filenames, files, idx, latest, installed_rank, success, rejection, err, result>>
  /\ UNCHANGED <<events, snap>>
  /\ UNCHANGED batch

\* The backend after a batch of run r's migration code was committed.
RECURSIVE CommitAll(_, _, _)
CommitAll(com, r, ops) ==
  IF ops = <<>> THEN com
  ELSE CommitAll([com EXCEPT ![r][Head(ops)] = @ + 1], r, Tail(ops))

\* The batch the code of file f holds on the client of invocation r: the one
\* followed, or one with no operations.
Built(r, f) ==
  IF batch[r].open /\ batch[r].file = <<f>> THEN batch[r] ELSE NewBatch(f)

\* The migration calls create, set, update or delete on the batch it got from
\* firestore.batch(): the wrapped method (lines 52-74) queues the counting and
\* the original queues the operation.
BatchCall(r, kind) ==
  /\ pc[r] = "running"
  /\ batch[r].open
  /\ batch[r].file = <<CurrentFile(r).filename>>
  /\ Len(batch[r].ops) < MaxOps
  /\ batch' = [batch EXCEPT ![r].ops = Append(@, kind),
                            ![r].queue = @ \o MitmBatch(r, kind, FALSE)]
  /\ UNCHANGED globals
  /\ UNCHANGED locals
  /\ UNCHANGED console
  /\ UNCHANGED ghosts

\* Line 428: migrate() returns the stats object itself, so what the caller
\* holds changes when a counter of the stats changes after the return.
ReturnedObject(r, st) ==
  IF result[r] = <<>> THEN result ELSE [result EXCEPT ![r] = <<Returned(st)>>]

\* _commit (lines 35-46) on batch b of invocation r: it empties the queue,
\* whose closures hold the stats and the log of the invocation, then returns
\* [] if statsMap has a dryrun entry for the client, and commits the
\* operations if not.
PatchedCommit(r, b) ==
  /\ batch' = IF b = batch[r] THEN [batch EXCEPT ![r] = NoBatch] ELSE batch
  /\ stats' = [stats EXCEPT ![r] = DrainQueue(@, b.queue)]
  /\ result' = ReturnedObject(r, DrainQueue(stats[r], b.queue))
  /\ console' = [console EXCEPT ![r].ops = LogAll(opts[r].debug, @, b.queue)]
  /\ committed' = IF Suppressed(r) THEN committed ELSE CommitAll(committed, r, b.ops)

\* The entry point of the migration calls batch.commit() on the batch it
\* built, awaiting it or not: the promises of the call are pending until the
\* commit resolves.
BatchCommit(r) ==
  /\ pc[r] = "running"
  /\ batch[r].open
  /\ batch[r].file = <<CurrentFile(r).filename>>
  /\ ~Scheduled(r)
  /\ PatchedCommit(r, batch[r])
  /\ handles' = handles \cup InFlight(r, CurrentFile(r).filename, 0, "commit")
  /\ UNCHANGED <<dir, script, lateScript, history, statsMap, proxied, listeners, exitCode>>
  /\ UNCHANGED <<pc, opts, entries, filenames, files, idx, pos, latest, installed_rank, success, rejection, err>>
  /\ UNCHANGED ghosts

\* A callback the migration scheduled (a timer set from the migration file, a
\* resource of activeHandles until it runs) calls batch.commit() now, whatever
\* the invocation is doing: while its entry point runs, while the engine
\* writes the record or runs a later migration, or after migrate() has
\* returned or thrown.  Its resource leaves activeHandles (before, line 145)
\* and the promises of the call are pending until the commit resolves.
LateCommit(h) ==
  /\ h \in handles
  /\ h.kind = "commit"
  /\ h.site = "timer"
  /\ PatchedCommit(h.run, Built(h.run, h.file))
  /\ handles' = (handles \ {h}) \cup InFlight(h.run, h.file, h.n, "commit")
  /\ pc' = DeleteHandle({h})
  /\ UNCHANGED <<dir, script, lateScript, history, statsMap, proxied, listeners, exitCode>>
  /\ UNCHANGED <<opts, entries, filenames, files, idx, pos, latest, installed_rank, success, rejection, err>>
  /\ UNCHANGED ghosts

\* trackAsync, lines 150-176 and 185: handleCheck after fn() settled.  With
\* forceWait it waits while activeHandles is not empty.
\* forceWait not looked at: handleCheck never waits.
HandleCheckNoWait(r) == "grace"

HandleCheck(r) ==
  IF opts[r].forceWait /\ Outstanding(r) # {} THEN "waiting" ELSE "grace"

\* The source locations activeHandles holds for the given resources.
Locations(hs) == {[file |-> h.file, n |-> h.n, kind |-> h.kind, site |-> h.site] : h \in hs}

\* The warning sent through log, as the one of the scan is.
HandleNoticeLogged(r, out) ==
  IF Outstanding(r) = {} THEN out
  ELSE IF opts[r].forceWait
       THEN [out EXCEPT !.waiting = IF opts[r].debug THEN @ + 1 ELSE @]
       ELSE [out EXCEPT !.async = Log(opts[r].debug, @, Locations(Outstanding(r)))]

\* Lines 152-174, the first pass of handleCheck: with resources outstanding
\* it logs the waiting notice (forceWait) or warns with the locations.
HandleNotice(r, out) ==
  IF Outstanding(r) = {} THEN out
  ELSE IF opts[r].forceWait
       THEN [out EXCEPT !.waiting = IF opts[r].debug THEN @ + 1 ELSE @]
       ELSE [out EXCEPT !.async = Append(@, Locations(Outstanding(r)))]

\* Lines 375-386 and 184-185: the operation the entry point awaited resolved
\* and the entry point settled, ok is whether it resolved; handleCheck runs.
Settle(r, ok) ==
  /\ pc[r] = "running"
  /\ ok => pos[r] = Len(script[CurrentFile(r).filename])
  /\ success' = [success EXCEPT ![r] = ok]
  /\ handles' = handles \ OwnPromises(r)
  /\ pc' = [DeleteHandle(OwnPromises(r)) EXCEPT ![r] = HandleCheck(r)]
  /\ console' = [console EXCEPT ![r] = HandleNotice(r, @)]
  /\ events' = [events EXCEPT ![r] = Append(@, [e |-> "settle", v |-> CurrentFile(r).version])]
  /\ UNCHANGED <<dir, script, lateScript, history, committed, statsMap, proxied, listeners, exitCode>>
  /\ UNCHANGED <<opts, entries, filenames, stats, files, idx, pos, latest, installed_rank, rejection, err, result>>
  /\ UNCHANGED <<issued, snap>>
  /\ UNCHANGED batch

MigReturn(r) == Settle(r, TRUE)

MigThrow(r) == Settle(r, FALSE)

\* Lines 152-163: the promise of waitForDeleted resolved; handleCheck looks at
\* activeHandles again and either waits for the next 'deleted' or is done.
WaitDeleted(r) ==
  /\ pc[r] = "woken"
  /\ pc' = [pc EXCEPT ![r] = HandleCheck(r)]
  /\ UNCHANGED globals
  /\ UNCHANGED <<opts, entries, filenames, stats, files, idx, pos, latest, installed_rank, success, rejection, err, result>>
  /\ UNCHANGED ghosts
  /\ UNCHANGED io

\* Line 201, hook.disable(): the session of run r follows no resource any
\* more.  A pending promise that no other open session holds is in no
\* activeHandles that is looked at again; work scheduled and not yet run stays,
\* it runs whatever the sessions do.
Disable(r) ==
  {h \in handles : h.site = "timer" \/ \E q \in h.by \ {r} : InSession(q)}

\* Lines 188-201 and 389-402: the grace timer fired, the captures are removed,
\* the hook is disabled, the session result becomes success; stats are frozen,
\* the rank is advanced and the file is read for its checksum.
Grace(r) ==
  /\ pc[r] = "grace"
  /\ handles' = Disable(r)
  /\ listeners' = {}
  /\ success' = [success EXCEPT ![r] = IF Truthy(rejection[r]) THEN FALSE ELSE @]
  /\ stats' = [stats EXCEPT ![r].frozen = TRUE]
  /\ installed_rank' = [installed_rank EXCEPT ![r] = @ + 1]
  /\ pc' = [pc EXCEPT ![r] = "readfile"]
  /\ UNCHANGED <<dir, script, lateScript, history, committed, statsMap, proxied, exitCode>>
  /\ UNCHANGED <<opts, entries, filenames, files, idx, pos, latest, rejection, err, result>>
  /\ UNCHANGED ghosts
  /\ UNCHANGED io

\* Lines 396-407: collection.doc(id).set(record) on the run's own client, so
\* through the wrapped WriteBatch.set and _commit.
Record(r) ==
  /\ pc[r] = "readfile"
  /\ stats' = [stats EXCEPT ![r] = DrainQueue(@, MitmBatch(r, "set", FALSE))]
  /\ console' = [console EXCEPT ![r].ops = LogAll(LogOf(r), @, MitmBatch(r, "set", FALSE))]
  /\ history' = IF Suppressed(r) THEN history
                ELSE PutDoc(history, HistoryRecord(installed_rank[r], CurrentFile(r), success[r]))
  /\ events' = [events EXCEPT ![r] = Append(@, [e |-> "append", v |-> CurrentFile(r).version])]
  /\ pc' = [pc EXCEPT ![r] = "recording"]
  /\ UNCHANGED <<dir, script, lateScript, committed, statsMap, proxied, listeners, handles, exitCode>>
  /\ UNCHANGED <<opts, entries, filenames, files, idx, pos, latest, installed_rank, success, rejection, err, result>>
  /\ UNCHANGED <<issued, snap>>
  /\ UNCHANGED batch

\* Lines 409-415: the write returned; unfreeze, stop at the first failure.
AfterRecord(r) ==
  /\ pc[r] = "recording"
  /\ stats' = [stats EXCEPT ![r].frozen = FALSE]
  /\ IF ~success[r]
     THEN /\ pc' = [pc EXCEPT ![r] = "aborted"]
          /\ err' = [err EXCEPT ![r] = "first_failure"]
          /\ filenames' = [filenames EXCEPT ![r] = <<>>]
          /\ idx' = idx
     ELSE /\ pc' = [pc EXCEPT ![r] = "loop"]
          /\ filenames' = filenames
          /\ idx' = [idx EXCEPT ![r] = @ + 1]
          /\ err' = err
  /\ UNCHANGED globals
  /\ UNCHANGED <<opts, entries, files, pos, latest, installed_rank, success, rejection, result>>
  /\ UNCHANGED ghosts
  /\ UNCHANGED io

\* Lines 417-428: every file ran; unregister the stats and return them.
Finish(r) ==
  /\ pc[r] = "loop"
  /\ idx[r] > Len(files[r])
  /\ statsMap' = [x \in DOMAIN statsMap \ {r} |-> statsMap[x]]
  /\ result' = [result EXCEPT ![r] = <<Returned(stats[r])>>]
  /\ pc' = [pc EXCEPT ![r] = "done"]
  /\ filenames' = [filenames EXCEPT ![r] = <<>>]
  /\ UNCHANGED <<dir, script, lateScript, history, committed, proxied, listeners, handles, exitCode>>
  /\ UNCHANGED <<opts, entries, stats, files, idx, pos, latest, installed_rank, success, rejection, err>>
  /\ UNCHANGED ghosts
  /\ UNCHANGED io

\* Work the migration scheduled and did not await runs now, whatever the
\* invocation that scheduled it is doing: its resource leaves activeHandles
\* (before, line 145) and it calls the client, through the interceptor and
\* _commit; the promises of the call are pending until the write resolves.
LateOp(h) ==
  /\ h \in handles
  /\ h.kind \in Kinds
  /\ h.site = "timer"
  /\ handles' = (handles \ {h}) \cup InFlight(h.run, h.file, h.n, h.kind)
  /\ pc' = DeleteHandle({h})
  /\ LET w == ClientWrite(h.run, h.kind)
     IN /\ stats' = [stats EXCEPT ![h.run] = w.stats]
        /\ console' = [console EXCEPT ![h.run].ops = LogAll(LogOf(h.run), @, w.lines)]
        /\ committed' = Commit(h.run, h.kind, w.sent)
        /\ issued' = [issued EXCEPT ![h.run][h.kind] = @ + 1]
  /\ UNCHANGED <<dir, script, lateScript, history, statsMap, proxied, listeners, exitCode>>
  /\ UNCHANGED <<opts, entries, filenames, files, idx, pos, latest, installed_rank, success, rejection, err, result>>
  /\ UNCHANGED <<events, snap>>
  /\ UNCHANGED batch

\* The write that un-awaited work of a migration made, or the commit of its
\* batch, resolves: its promises leave activeHandles (promiseResolve, line
\* 147).
LateDone(h) ==
  /\ h \in handles
  /\ h.kind \in Kinds \cup {"commit"}
  /\ h.site = "call"
  /\ handles' = handles \ {h}
  /\ pc' = DeleteHandle({h})
  /\ UNCHANGED <<dir, script, lateScript, history, committed, statsMap, proxied, listeners,
                 exitCode>>
  /\ UNCHANGED <<opts, entries, filenames, stats, files, idx, pos, latest, installed_rank,
                 success, rejection, err, result>>
  /\ UNCHANGED io
  /\ UNCHANGED ghosts

\* An operation the migration started and did not await fails with nobody to
\* handle it.  process emits the event the failure is raised as, every
\* listener on it is called with the reason and, installed with once, removed.
\* With no listener on it the process exits with code 1: no invocation in
\* progress goes on and nothing outstanding runs.
LateErr(h) ==
  /\ h \in handles
  /\ h.kind \in ErrKinds
  /\ LET raised == Raised(h.kind) IN
     IF Heard(raised.event)
     THEN /\ handles' = handles \ {h}
          /\ pc' = DeleteHandle({h})
          /\ rejection' = [q \in Runs |-> IF <<q, raised.event>> \in listeners
                                          THEN raised.reason ELSE rejection[q]]
          /\ listeners' = {l \in listeners : l[2] # raised.event}
          /\ exitCode' = exitCode
     ELSE /\ handles' = {}
          /\ pc' = [q \in Runs |-> IF InProgress(q) THEN "exited" ELSE pc[q]]
          /\ rejection' = rejection
          /\ listeners' = {}
          /\ exitCode' = <<1>>
  /\ events' = [events EXCEPT ![h.run] =
                  Append(@, [e |-> "error",
                             v |-> IF InSession(h.run) THEN CurrentFile(h.run).version
                                   ELSE <<>>])]
  /\ UNCHANGED <<dir, script, lateScript, history, committed, statsMap, proxied>>
  /\ UNCHANGED <<opts, entries, filenames, stats, files, idx, pos, latest, installed_rank, success, err, result>>
  /\ UNCHANGED io
  /\ UNCHANGED <<issued, snap>>

\* The operator adds a migration file to the directory, between invocations
\* or while one is in progress: readdir (line 240) lists what is there when it
\* runs.
AddFile(f) ==
  /\ f \notin dir
  /\ dir' = dir \cup {f}
  /\ UNCHANGED <<script, lateScript, history, committed, statsMap, proxied, listeners, handles,
                 exitCode>>
  /\ UNCHANGED locals
  /\ UNCHANGED ghosts
  /\ UNCHANGED io

\* -------------------------------------------------------- specifications
\* The operations of total, in order, that owner gives to file f.
RECURSIVE Owned(_, _, _, _)
Owned(total, owner, f, i) ==
  IF i > Len(total) THEN <<>>
  ELSE (IF owner[i] = f THEN <<total[i]>> ELSE <<>>) \o Owned(total, owner, f, i + 1)

InitRuns ==
  /\ committed = [r \in Runs |-> NoCounts]
  /\ statsMap = <<>>
  /\ proxied = FALSE
  /\ listeners = {}
  /\ handles = {}
  /\ exitCode = <<>>
  /\ pc = [r \in Runs |-> "idle"]
  /\ entries = [r \in Runs |-> <<>>]
  /\ opts = [r \in Runs |-> [dryrun |-> FALSE, forceWait |-> FALSE, debug |-> FALSE]]
  /\ filenames = [r \in Runs |-> <<>>]
  /\ stats = [r \in Runs |-> NewStats]
  /\ files = [r \in Runs |-> <<>>]
  /\ idx = [r \in Runs |-> 1]
  /\ pos = [r \in Runs |-> 0]
  /\ latest = [r \in Runs |-> <<>>]
  /\ installed_rank = [r \in Runs |-> -1]
  /\ success = [r \in Runs |-> FALSE]
  /\ rejection = [r \in Runs |-> "undefined"]
  /\ err = [r \in Runs |-> ""]
  /\ result = [r \in Runs |-> <<>>]
  /\ events = [r \in Runs |-> <<>>]
  /\ issued = [r \in Runs |-> NoCounts]
  /\ snap = [r \in Runs |-> <<>>]
  /\ batch = [r \in Runs |-> NoBatch]
  /\ console = [r \in Runs |-> NoOutput]

\* The files of a directory the scan keeps, as the scan returns them.
FileOf(f) == [filename |-> f, version |-> Coerce(f.vtok), description |-> f.desc]

\* What the migrations of Pool await when nothing else is said.
PoolScript ==
  [f \in Pool |-> IF f = FileA THEN <<"set">>
                  ELSE IF f = FileB THEN <<"add", "delete">>
                  ELSE <<>>]

\* A single runner: any directory over Pool and an empty history.  Files are
\* added to the directory between invocations and while one is in progress.
Init ==
  /\ dir \in SUBSET Pool
  /\ script = PoolScript
  /\ lateScript = [f \in Pool |-> <<>>]
  /\ history = {}
  /\ InitRuns

\* Invocations are numbered in the order they start.
IsNext(r) == exitCode = <<>> /\ pc[r] = "idle" /\ \A q \in Runs : q < r => pc[q] # "idle"

\* One invocation at a time.
Alone(r) == IsNext(r) /\ \A q \in Runs : ~InProgress(q)

Next ==
  \/ \E r \in Runs, dryrun \in BOOLEAN : Alone(r) /\ Migrate(r, dryrun, FALSE, FALSE)
  \/ \E r \in Runs : Exists(r)
  \/ \E r \in Runs : ReadDir(r)
  \/ \E r \in Runs : Stat(r)
  \/ \E r \in Runs : GetClient(r)
  \/ \E r \in Runs : GetElasticsearchClient(r)
  \/ \E r \in Runs : ReadHistory(r)
  \/ \E r \in Runs : Invoke(r)
  \/ \E r \in Runs : LoadFail(r)
  \/ \E r \in Runs : MigOp(r)
  \/ \E r \in Runs : MigReturn(r)
  \/ \E r \in Runs : MigThrow(r)
  \/ \E r \in Runs : Grace(r)
  \/ \E r \in Runs : Record(r)
  \/ \E r \in Runs : AfterRecord(r)
  \/ \E r \in Runs : Finish(r)
  \/ \E f \in Pool : AddFile(f)

Spec == Init /\ [][Next]_vars

\* Two migrations that await every sequence of at most MaxOps operations in
\* all, run twice by a single runner, from an empty history or from the one
\* left by a run that recorded the first migration.
StatsDir == {FileA, FileB}

\* "Running migrate() twice".
Twice == {1, 2}

InitStats ==
  /\ dir = StatsDir
  /\ \E total \in SeqUpTo(Kinds, MaxOps) : \E owner \in [1..Len(total) -> StatsDir] :
       script = [f \in Pool |-> Owned(total, owner, f, 1)]
  /\ lateScript = [f \in Pool |-> <<>>]
  /\ history \in {{}, {HistoryRecord(0, FileOf(FileA), TRUE)}}
  /\ InitRuns

NextStats ==
  \/ \E r \in Twice, dryrun \in BOOLEAN : Alone(r) /\ Migrate(r, dryrun, FALSE, FALSE)
  \/ \E r \in Runs : Exists(r)
  \/ \E r \in Runs : ReadDir(r)
  \/ \E r \in Runs : Stat(r)
  \/ \E r \in Runs : GetClient(r)
  \/ \E r \in Runs : GetElasticsearchClient(r)
  \/ \E r \in Runs : ReadHistory(r)
  \/ \E r \in Runs : Invoke(r)
  \/ \E r \in Runs : MigOp(r)
  \/ \E r \in Runs : MigReturn(r)
  \/ \E r \in Runs : MigThrow(r)
  \/ \E r \in Runs : Grace(r)
  \/ \E r \in Runs : Record(r)
  \/ \E r \in Runs : AfterRecord(r)
  \/ \E r \in Runs : Finish(r)

SpecStats == InitStats /\ [][NextStats]_vars

\* What a migration leaves behind: writes through WriteBatch, a set, as the
\* engine's own write is, and an update, and an add, which goes through
\* CollectionReference.
LateKinds == {"set", "update", "add"}

\* Migrations that also start up to MaxLate operations in all that they do not
\* await, in one invocation with and without forceWait.
InitAsync ==
  /\ dir = StatsDir
  /\ script = PoolScript
  /\ \E total \in SeqUpTo(LateKinds, MaxLate) : \E owner \in [1..Len(total) -> StatsDir] :
       lateScript = [f \in Pool |-> Owned(total, owner, f, 1)]
  /\ history = {}
  /\ InitRuns

NextAsync ==
  \/ \E dryrun \in BOOLEAN, forceWait \in BOOLEAN :
       Alone(1) /\ Migrate(1, dryrun, forceWait, FALSE)
  \/ \E r \in Runs : Exists(r)
  \/ \E r \in Runs : ReadDir(r)
  \/ \E r \in Runs : Stat(r)
  \/ \E r \in Runs : GetClient(r)
  \/ \E r \in Runs : GetElasticsearchClient(r)
  \/ \E r \in Runs : ReadHistory(r)
  \/ \E r \in Runs : Invoke(r)
  \/ \E r \in Runs : MigOp(r)
  \/ \E r \in Runs : MigReturn(r)
  \/ \E r \in Runs : MigThrow(r)
  \/ \E r \in Runs : WaitDeleted(r)
  \/ \E r \in Runs : Grace(r)
  \/ \E r \in Runs : Record(r)
  \/ \E r \in Runs : AfterRecord(r)
  \/ \E r \in Runs : Finish(r)
  \/ \E h \in handles : LateOp(h)
  \/ \E h \in handles : LateDone(h)

SpecAsync == InitAsync /\ [][NextAsync]_vars

\* Migrations whose un-awaited work fails up to MaxLate times in all, each
\* failure an unhandled rejection or an uncaught exception.
InitErr ==
  /\ dir = StatsDir
  /\ script = PoolScript
  /\ \E total \in SeqUpTo(ErrKinds, MaxLate) : \E owner \in [1..Len(total) -> StatsDir] :
       lateScript = [f \in Pool |-> Owned(total, owner, f, 1)]
  /\ history = {}
  /\ InitRuns

NextErr ==
  \/ \E dryrun \in BOOLEAN, forceWait \in BOOLEAN :
       Alone(1) /\ Migrate(1, dryrun, forceWait, FALSE)
  \/ \E r \in Runs : Exists(r)
  \/ \E r \in Runs : ReadDir(r)
  \/ \E r \in Runs : Stat(r)
  \/ \E r \in Runs : GetClient(r)
  \/ \E r \in Runs : GetElasticsearchClient(r)
  \/ \E r \in Runs : ReadHistory(r)
  \/ \E r \in Runs : Invoke(r)
  \/ \E r \in Runs : MigOp(r)
  \/ \E r \in Runs : MigReturn(r)
  \/ \E r \in Runs : MigThrow(r)
  \/ \E r \in Runs : WaitDeleted(r)
  \/ \E r \in Runs : Grace(r)
  \/ \E r \in Runs : Record(r)
  \/ \E r \in Runs : AfterRecord(r)
  \/ \E r \in Runs : Finish(r)
  \/ \E h \in handles : LateErr(h)

SpecErr == InitErr /\ [][NextErr]_vars

\* One invocation over any directory of at most MaxDir entries, well-formed
\* or not, from an empty history or one with a record.
InitScan ==
  /\ dir \in {d \in SUBSET ScanPool : Cardinality(d) <= MaxDir}
  /\ script = [f \in ScanPool |-> IF f \in Pool THEN PoolScript[f] ELSE <<>>]
  /\ lateScript = [f \in ScanPool |-> <<>>]
  /\ history \in {{}, {HistoryRecord(0, FileOf(FileA), TRUE)}}
  /\ InitRuns

NextScan ==
  \/ \E dryrun \in BOOLEAN, debug \in BOOLEAN : Alone(1) /\ Migrate(1, dryrun, FALSE, debug)
  \/ \E r \in Runs : Exists(r)
  \/ \E r \in Runs : ReadDir(r)
  \/ \E r \in Runs : Stat(r)
  \/ \E r \in Runs : GetClient(r)
  \/ \E r \in Runs : GetElasticsearchClient(r)
  \/ \E r \in Runs : ReadHistory(r)
  \/ \E r \in Runs : Invoke(r)
  \/ \E r \in Runs : MigOp(r)
  \/ \E r \in Runs : MigReturn(r)
  \/ \E r \in Runs : MigThrow(r)
  \/ \E r \in Runs : Grace(r)
  \/ \E r \in Runs : Record(r)
  \/ \E r \in Runs : AfterRecord(r)
  \/ \E r \in Runs : Finish(r)

SpecScan == InitScan /\ [][NextScan]_vars

\* One invocation, not a dry run, with and without debug, over a migration
\* that also starts up to MaxLate operations it does not await, next to an
\* unversioned file.
LogDir == {FileB, FileDraft}

InitLog ==
  /\ dir = LogDir
  /\ script = [f \in ScanPool |-> IF f \in Pool THEN PoolScript[f] ELSE <<>>]
  /\ \E total \in SeqUpTo(LateKinds, MaxLate) :
       lateScript = [f \in ScanPool |-> IF f = FileB THEN total ELSE <<>>]
  /\ history = {}
  /\ InitRuns

NextLog ==
  \/ \E forceWait \in BOOLEAN, debug \in BOOLEAN :
       Alone(1) /\ Migrate(1, FALSE, forceWait, debug)
  \/ \E r \in Runs : Exists(r)
  \/ \E r \in Runs : ReadDir(r)
  \/ \E r \in Runs : Stat(r)
  \/ \E r \in Runs : GetClient(r)
  \/ \E r \in Runs : GetElasticsearchClient(r)
  \/ \E r \in Runs : ReadHistory(r)
  \/ \E r \in Runs : Invoke(r)
  \/ \E r \in Runs : MigOp(r)
  \/ \E r \in Runs : MigReturn(r)
  \/ \E r \in Runs : MigThrow(r)
  \/ \E r \in Runs : WaitDeleted(r)
  \/ \E r \in Runs : Grace(r)
  \/ \E r \in Runs : Record(r)
  \/ \E r \in Runs : AfterRecord(r)
  \/ \E r \in Runs : Finish(r)
  \/ \E h \in handles : LateOp(h)
  \/ \E h \in handles : LateDone(h)

SpecLog == InitLog /\ [][NextLog]_vars

\* The same invocation with forceWait and debug.  The event loop runs what is
\* ready: the continuation of a resolved waitForDeleted promise, the 1 ms
\* timer of the grace delay, the completion of readFile.  Whether an operation
\* the migration left behind ever executes is up to the migration.
NextWait ==
  \/ Alone(1) /\ Migrate(1, FALSE, TRUE, TRUE)
  \/ \E r \in Runs : Exists(r)
  \/ \E r \in Runs : ReadDir(r)
  \/ \E r \in Runs : Stat(r)
  \/ \E r \in Runs : GetClient(r)
  \/ \E r \in Runs : GetElasticsearchClient(r)
  \/ \E r \in Runs : ReadHistory(r)
  \/ \E r \in Runs : Invoke(r)
  \/ \E r \in Runs : MigOp(r)
  \/ \E r \in Runs : MigReturn(r)
  \/ \E r \in Runs : MigThrow(r)
  \/ \E r \in Runs : WaitDeleted(r)
  \/ \E r \in Runs : Grace(r)
  \/ \E r \in Runs : Record(r)
  \/ \E r \in Runs : AfterRecord(r)
  \/ \E r \in Runs : Finish(r)
  \/ \E h \in handles : LateOp(h)
  \/ \E h \in handles : LateDone(h)

SpecWait ==
  /\ InitLog /\ [][NextWait]_vars
  /\ WF_vars(\E r \in Runs : WaitDeleted(r))
  /\ WF_vars(\E r \in Runs : Grace(r))
  /\ WF_vars(\E r \in Runs : Record(r))

\* One invocation whose migration, next to its document-level calls, builds a
\* batch of up to MaxOps operations and commits it, in its entry point or
\* from a callback it schedules, or not.
InitBatch ==
  /\ dir = {FileB}
  /\ script = PoolScript
  /\ \E late \in {<<>>, <<"commit">>} :
       lateScript = [f \in Pool |-> IF f = FileB THEN late ELSE <<>>]
  /\ history = {}
  /\ InitRuns

NextBatch ==
  \/ \E dryrun \in BOOLEAN, debug \in BOOLEAN : Alone(1) /\ Migrate(1, dryrun, FALSE, debug)
  \/ \E r \in Runs : Exists(r)
  \/ \E r \in Runs : ReadDir(r)
  \/ \E r \in Runs : Stat(r)
  \/ \E r \in Runs : GetClient(r)
  \/ \E r \in Runs : GetElasticsearchClient(r)
  \/ \E r \in Runs : ReadHistory(r)
  \/ \E r \in Runs : Invoke(r)
  \/ \E r \in Runs : MigOp(r)
  \/ \E r \in Runs, kind \in BatchKinds : BatchCall(r, kind)
  \/ \E r \in Runs : BatchCommit(r)
  \/ \E h \in handles : LateCommit(h)
  \/ \E h \in handles : LateDone(h)
  \/ \E r \in Runs : MigReturn(r)
  \/ \E r \in Runs : MigThrow(r)
  \/ \E r \in Runs : Grace(r)
  \/ \E r \in Runs : Record(r)
  \/ \E r \in Runs : AfterRecord(r)
  \/ \E r \in Runs : Finish(r)

SpecBatch == InitBatch /\ [][NextBatch]_vars

\* Several invocations in progress in the same process, interleaved at their
\* await points, over a migration whose entry point resolves.
InitConc ==
  /\ dir = {FileB}
  /\ script = PoolScript
  /\ lateScript = [f \in Pool |-> <<>>]
  /\ history = {}
  /\ InitRuns

NextConc ==
  \/ \E r \in Runs, dryrun \in BOOLEAN : IsNext(r) /\ Migrate(r, dryrun, FALSE, FALSE)
  \/ \E r \in Runs : Exists(r)
  \/ \E r \in Runs : ReadDir(r)
  \/ \E r \in Runs : Stat(r)
  \/ \E r \in Runs : GetClient(r)
  \/ \E r \in Runs : GetElasticsearchClient(r)
  \/ \E r \in Runs : ReadHistory(r)
  \/ \E r \in Runs : Invoke(r)
  \/ \E r \in Runs : MigOp(r)
  \/ \E r \in Runs : MigReturn(r)
  \/ \E r \in Runs : Grace(r)
  \/ \E r \in Runs : Record(r)
  \/ \E r \in Runs : AfterRecord(r)
  \/ \E r \in Runs : Finish(r)

SpecConc == InitConc /\ [][NextConc]_vars

\* Several invocations, none a dry run, in progress in the same process over
\* a migration that resolves and whose un-awaited work fails up to MaxLate
\* times.
InitConcErr ==
  /\ dir = {FileB}
  /\ script = PoolScript
  /\ \E total \in SeqUpTo(ErrKinds, MaxLate) :
       lateScript = [f \in Pool |-> IF f = FileB THEN total ELSE <<>>]
  /\ history = {}
  /\ InitRuns

NextConcErr ==
  \/ \E r \in Runs : IsNext(r) /\ Migrate(r, FALSE, FALSE, FALSE)
  \/ \E r \in Runs : Exists(r)
  \/ \E r \in Runs : ReadDir(r)
  \/ \E r \in Runs : Stat(r)
  \/ \E r \in Runs : GetClient(r)
  \/ \E r \in Runs : GetElasticsearchClient(r)
  \/ \E r \in Runs : ReadHistory(r)
  \/ \E r \in Runs : Invoke(r)
  \/ \E r \in Runs : MigOp(r)
  \/ \E r \in Runs : MigReturn(r)
  \/ \E r \in Runs : Grace(r)
  \/ \E r \in Runs : Record(r)
  \/ \E r \in Runs : AfterRecord(r)
  \/ \E r \in Runs : Finish(r)
  \/ \E h \in handles : LateErr(h)

SpecConcErr == InitConcErr /\ [][NextConcErr]_vars

\* ------------------------------------------------------------ properties
\* Semantic-version order, written out on the three components.
VLess(a, b) ==
  \/ a[1] < b[1]
  \/ a[1] = b[1] /\ a[2] < b[2]
  \/ a[1] = b[1] /\ a[2] = b[2] /\ a[3] < b[3]

\* The versions of the migration files of a directory.
DirVersions(d) == {Coerce(f.vtok) : f \in {g \in d : ~g.dot /\ Coerce(g.vtok) # <<>>}}

\* The records of highest installed_rank of a history.
MaxRank(h) == {x \in h : \A y \in h : y.installed_rank <= x.installed_rank}

Started(r) == pc[r] # "idle"

\* The positions of an invocation before it has read the history.
BeforeRead == {"exists", "readdir", "stat", "auth", "es", "query"}

\* The scan of invocation r is over.
Scanned(r) == pc[r] \notin {"idle", "exists", "readdir", "stat"}

\* The history at the call of invocation r.
SnapHistory(r) == snap[r][1].history

\* The directory as readdir listed it for invocation r.
Listed(r) == snap[r][1].listed

\* The versions invocation r has to run: those of its directory above the
\* latest record it started from.
ToRun(r) ==
  {v \in DirVersions(Listed(r)) : \A h \in MaxRank(SnapHistory(r)) : VLess(h.version, v)}

IsInvoke(ev) == ev.e = "invoke"
IsAppend(ev) == ev.e = "append"
Invokes(r) == SelectSeq(events[r], IsInvoke)
Appends(r) == SelectSeq(events[r], IsAppend)

\* The last invocation started so far.
LastRun(r) == Started(r) /\ \A q \in Runs : q > r => ~Started(q)

Ended(r) == pc[r] \in {"done", "aborted"}

\* C1: in every invocation the entry points are invoked in strictly ascending
\* version order, each only after the previous one settled and its history
\* append call was made, and no version to run lying between two invoked ones
\* is skipped, whatever the order of the directory listing.
C1_Ordering ==
  \A r \in Runs :
    LET ev == events[r] IN
    /\ \A i \in 1..Len(ev) :
         /\ ev[i].e = (IF i % 3 = 1 THEN "invoke" ELSE IF i % 3 = 2 THEN "settle" ELSE "append")
         /\ ev[i].v = ev[i - ((i - 1) % 3)].v
    /\ \A i, j \in 1..Len(Invokes(r)) :
         i < j => VLess(Invokes(r)[i].v, Invokes(r)[j].v)
    /\ \A i \in 1..(Len(Invokes(r)) - 1) :
         ~\E p \in ToRun(r) : VLess(Invokes(r)[i].v, p) /\ VLess(p, Invokes(r)[i + 1].v)

\* Three migrations listed as 1.10.0, 2.0.0, 1.2.0 were all run and recorded.
C1_Witness ==
  \E r \in Runs :
    /\ pc[r] = "loop"
    /\ filenames[r] = <<FileB, FileC, FileA>>
    /\ Len(events[r]) = 9
    /\ Invokes(r)[1].v = <<1, 2, 0>> /\ Invokes(r)[2].v = <<1, 10, 0>> /\ Invokes(r)[3].v = <<2, 0, 0>>

\* C2: an entry point is invoked only for a version strictly above the version
\* of the latest record (highest installed_rank) the invocation started from;
\* with an empty history every candidate is kept; and the history never holds
\* two records of the same version.
C2_OnlyNewer ==
  /\ \A r \in Runs : Started(r) =>
       /\ \A i \in 1..Len(Invokes(r)) : \A h \in MaxRank(SnapHistory(r)) :
            VLess(h.version, Invokes(r)[i].v)
       /\ (SnapHistory(r) = {} /\ pc[r] \in {"loop", "running", "grace", "readfile", "recording", "done"})
            => {files[r][i].version : i \in 1..Len(files[r])} = DirVersions(Listed(r))
  /\ \A a, b \in history : a.version = b.version => a = b

\* The second invocation found 1.10.0 recorded, never ran the 1.2.0 that was
\* added after the first one had listed the directory, and ran and recorded
\* 2.0.0.
C2_Witness ==
  /\ pc[2] = "done"
  /\ FileA \notin Listed(1)
  /\ Listed(2) = {FileA, FileB, FileC}
  /\ {h.version : h \in SnapHistory(2)} = {<<1, 10, 0>>}
  /\ Len(Invokes(2)) = 1 /\ Invokes(2)[1].v = <<2, 0, 0>>
  /\ {h.version : h \in history} = {<<1, 10, 0>>, <<2, 0, 0>>}

\* C3: an invocation that starts from a history whose latest record has
\* success = false aborts before any entry point is invoked: it executes no
\* migration and the history stays as it found it.
C3_FailedLatestAborts ==
  \A r \in Runs :
    (Started(r) /\ \E h \in MaxRank(SnapHistory(r)) : ~h.success) =>
      /\ pc[r] \in BeforeRead \cup {"aborted"}
      /\ pc[r] = "aborted" => err[r] = "failed_latest"
      /\ events[r] = <<>>
      /\ stats[r].executedFiles = 0
      /\ LastRun(r) => history = SnapHistory(r)

\* An invocation aborted on a failed latest record although its directory
\* holds a newer version.
C3_Witness ==
  \E r \in Runs :
    /\ err[r] = "failed_latest"
    /\ \E h \in SnapHistory(r) : ~h.success /\ \E v \in DirVersions(Listed(r)) : VLess(h.version, v)

\* The version of the migration whose entry point invocation r invoked last.
LastVersion(r) == events[r][Len(events[r])].v

\* C4 as stated: whenever migrate() throws 'Stopped at first failure', the
\* history holds a record of the failed migration with success = false.
C4_Original ==
  \A r \in Runs :
    err[r] = "first_failure" =>
      \E h \in history : h.version = LastVersion(r) /\ ~h.success

\* C4 amended: migrate() throws 'Stopped at first failure' only after the
\* append call for the failed migration was made, and nothing is thrown between
\* the failure and that call; no later migration is invoked.  In a non-dry run
\* the call has put a record with success = false as the latest record; in a
\* dry run the call is suppressed and the history is as the run found it.
C4_RecordThenThrow ==
  \A r \in Runs :
    /\ (events[r] # <<>> /\ events[r][Len(events[r])].e = "settle")
         => pc[r] \in {"waiting", "woken", "grace", "readfile"} /\ err[r] = ""
    /\ pc[r] \in {"readfile", "recording"} => err[r] = ""
    /\ err[r] = "first_failure" =>
         /\ pc[r] = "aborted"
         /\ events[r][Len(events[r])].e = "append"
         /\ ~success[r]
         /\ ~opts[r].dryrun =>
              \E h \in history :
                /\ h.version = LastVersion(r) /\ ~h.success
                /\ LastRun(r) => MaxRank(history) = {h}
         /\ (opts[r].dryrun /\ LastRun(r)) => history = SnapHistory(r)

\* A non-dry run stopped at its second migration with a third one left, the
\* failure on record.
C4_Witness ==
  \E r \in Runs :
    /\ err[r] = "first_failure" /\ ~opts[r].dryrun
    /\ Len(events[r]) = 6 /\ Len(files[r]) = 3
    /\ \E h \in history : h.version = LastVersion(r) /\ ~h.success /\ h.installed_rank = 1

\* The records the last invocation added to the history.
Added(r) == history \ SnapHistory(r)

\* C5 as stated: in every run, dry or not, the records appended by the run are
\* one per migration whose entry point was invoked.
C5_Original ==
  \A r \in Runs :
    (LastRun(r) /\ Ended(r)) =>
      /\ Cardinality(Added(r)) = Len(Invokes(r))
      /\ {h.version : h \in Added(r)} = {Invokes(r)[i].v : i \in 1..Len(Invokes(r))}

\* C5 amended: in every non-dry run the records appended by the run are one per
\* migration whose entry point was invoked, succeeded or failed, and none for a
\* migration whose module failed to load; in a dry run one append call is made
\* per invoked migration and none of them adds a record.
C5_OneRecordPerAttempt ==
  \A r \in Runs :
    (LastRun(r) /\ Ended(r)) =>
      /\ Len(Appends(r)) = Len(Invokes(r))
      /\ err[r] = "load" => stats[r].executedFiles = Len(Invokes(r)) + 1
      /\ err[r] # "load" => stats[r].executedFiles = Len(Invokes(r))
      /\ ~opts[r].dryrun =>
           /\ Cardinality(Added(r)) = Len(Invokes(r))
           /\ {h.version : h \in Added(r)} = {Invokes(r)[i].v : i \in 1..Len(Invokes(r))}
      /\ opts[r].dryrun => Added(r) = {}

\* A non-dry run aborted on a module that failed to load after two migrations
\* ran: their two records are in place and there is none for the third.
C5_Witness ==
  \E r \in Runs :
    /\ LastRun(r) /\ err[r] = "load" /\ ~opts[r].dryrun
    /\ stats[r].executedFiles = 3
    /\ Cardinality(Added(r)) = 2

\* C6: the installed_rank values of the history are exactly 0 .. n-1 for its n
\* records.
C6_GapFreeRanks ==
  /\ {h.installed_rank : h \in history} = 0..(Cardinality(history) - 1)
  /\ \A a, b \in history : a.installed_rank = b.installed_rank => a = b

\* Two invocations wrote three records between them.
C6_Witness ==
  /\ Cardinality(history) = 3
  /\ Len(Appends(1)) = 1 /\ Len(Appends(2)) = 2
  /\ ~opts[1].dryrun /\ ~opts[2].dryrun

\* C7 as stated: no write issued by migration code on the client of a dry run
\* ever reaches the backend, whenever its commit step executes.
C7_DryRunCommitsNothing ==
  \A r \in Runs : (Started(r) /\ opts[r].dryrun) => committed[r] = NoCounts

\* C8: a dry run leaves the history as it found it, and two dry runs over the
\* same directory from the same history return the same RunStats.
C8_DryRunIdempotent ==
  /\ \A r \in Runs : (LastRun(r) /\ opts[r].dryrun) => history = SnapHistory(r)
  /\ \A r1, r2 \in Runs :
       ( /\ result[r1] # <<>> /\ result[r2] # <<>>
         /\ opts[r1].dryrun /\ opts[r2].dryrun
         /\ Listed(r1) = Listed(r2) /\ SnapHistory(r1) = SnapHistory(r2) )
       => result[r1] = result[r2]

\* Two dry runs over two migrations that issue two writes both returned, with
\* equal RunStats, and the history is the empty one they started from.
C8_Witness ==
  /\ pc[1] = "done" /\ pc[2] = "done"
  /\ opts[1].dryrun /\ opts[2].dryrun
  /\ result[1] = result[2]
  /\ result[1][1].executedFiles = 2
  /\ result[1][1].created + result[1][1].set + result[1][1].updated
       + result[1][1].deleted + result[1][1].added = 2
  /\ Len(Appends(1)) = 2 /\ Len(Appends(2)) = 2
  /\ history = {}

\* C9: in normal and in dry-run mode alike, each RunStats counter equals the
\* number of awaited operations of its kind the migrations issued: an add is
\* counted as added and not as created, and the writes of the engine's own
\* records are not counted.
C9_StatsCorrect ==
  \A r \in Runs : \A k \in Kinds :
    /\ stats[r][CounterOf(k)] = issued[r][k]
    /\ result[r] # <<>> => result[r][1][CounterOf(k)] = issued[r][k]

\* A dry run and then a normal run of a migration that adds a document and one
\* that sets one: both return added 1, set 1, created 0, and the normal run
\* wrote its two records.
C9_Witness ==
  /\ pc[1] = "done" /\ pc[2] = "done"
  /\ opts[1].dryrun /\ ~opts[2].dryrun
  /\ \A r \in {1, 2} :
       /\ result[r][1].added = 1 /\ result[r][1].set = 1 /\ result[r][1].created = 0
       /\ issued[r]["add"] = 1 /\ issued[r]["set"] = 1
  /\ Cardinality(Added(2)) = 2

\* C10: with several invocations in progress, every call on the client of an
\* invocation is counted in that invocation's RunStats and in no other, and is
\* committed exactly when that invocation is not a dry run.
C10_Isolation ==
  \A r \in Runs : \A k \in Kinds :
    /\ stats[r][CounterOf(k)] = issued[r][k]
    /\ committed[r][k] = IF opts[r].dryrun THEN 0 ELSE issued[r][k]

\* A dry run and a normal run are both inside their migration; each has added
\* a document: one add is counted in each RunStats, and only the normal run's
\* reached the backend.
C10_Witness ==
  /\ pc[1] = "running" /\ pc[2] = "running"
  /\ opts[1].dryrun /\ ~opts[2].dryrun
  /\ stats[1].added = 1 /\ stats[2].added = 1
  /\ committed[1] = NoCounts
  /\ committed[2]["add"] = 1

\* The positions from the end of handleCheck to the return of the history
\* write of the current migration.
PastWait == {"grace", "readfile", "recording"}

\* C11: with forceWait, an invocation is past the wait of a migration (grace
\* delay, history append made) only with no operation that migration started
\* outstanding; it waits only while there is one.  Without forceWait it never
\* waits, whatever is outstanding.
C11_ForceWaitBlocks ==
  \A r \in Runs :
    /\ (opts[r].forceWait /\ pc[r] \in PastWait) => ActiveHandles(r) = {}
    /\ pc[r] = "waiting" => opts[r].forceWait /\ ActiveHandles(r) # {}
    /\ pc[r] = "woken" => opts[r].forceWait
    /\ (events[r] # <<>> /\ events[r][Len(events[r])].e = "settle" /\ ~opts[r].forceWait)
         => pc[r] \in {"grace", "readfile"}

\* A forceWait run made the append of a migration that had started two
\* operations without awaiting them: both have executed.
C11_Witness ==
  \E r \in Runs :
    /\ opts[r].forceWait /\ pc[r] = "recording"
    /\ Len(lateScript[CurrentFile(r).filename]) = 2
    /\ ActiveHandles(r) = {}
    /\ issued[r][lateScript[CurrentFile(r).filename][1]] >= 1

\* The errors that surfaced while a tracking session of invocation r was open.
Surfaced(r) == {i \in 1..Len(events[r]) : events[r][i].e = "error" /\ events[r][i].v # <<>>}

\* The append call for version v was made by invocation r after event i.
AppendedAfter(r, i, v) ==
  \E j \in (i + 1)..Len(events[r]) : events[r][j].e = "append" /\ events[r][j].v = v

\* C12 as stated, for non-dry runs: an unhandled rejection or uncaught
\* exception, whatever its value, that surfaces while the tracking session of a
\* migration is open makes the migration failed: once its append call is made
\* the history holds its record with success = false, no later migration is
\* invoked, and the run ends with 'Stopped at first failure'.
C12_UnhandledFails ==
  \A r \in Runs : \A i \in Surfaced(r) :
    ~opts[r].dryrun =>
      LET v == events[r][i].v IN
      /\ AppendedAfter(r, i, v) =>
           /\ \E h \in history : h.version = v /\ ~h.success
           /\ pc[r] \in {"recording", "aborted", "exited"}
      /\ pc[r] = "aborted" => err[r] = "first_failure"
      /\ pc[r] # "done"

\* The entries of a directory with a numeric version token that do not start
\* with a dot.
Versioned(d) == {f \in d : ~f.dot /\ f.vtok # <<>>}

\* The version token padded with zeros to major.minor.patch.
Padded(vtok) == [i \in 1..3 |-> IF i <= Len(vtok) THEN vtok[i] ELSE 0]

Malformed(d) == \E f \in Versioned(d) : f.desc = ""

Duplicated(d) == \E f, g \in Versioned(d) : f # g /\ Padded(f.vtok) = Padded(g.vtok)

\* C13: an invocation over a directory with two entries of one coerced version,
\* or with a versioned entry that has no description, throws out of the scan:
\* it keeps no candidate, registers nothing, invokes no entry point and neither
\* reads nor writes the history.  Any other directory is scanned without
\* error, its dot files and unversioned entries left out of the candidates.
C13_ScanAborts ==
  \A r \in Runs : Scanned(r) =>
    /\ (Malformed(Listed(r)) \/ Duplicated(Listed(r))) =>
         /\ pc[r] = "aborted" /\ err[r] \in {"format", "duplicate"}
         /\ files[r] = <<>> /\ stats[r] = NewStats /\ ~Claimed(r)
         /\ events[r] = <<>>
         /\ latest[r] = <<>> /\ history = SnapHistory(r)
    /\ err[r] = "format" => Malformed(Listed(r))
    /\ err[r] = "duplicate" => Duplicated(Listed(r))
    /\ ~(Malformed(Listed(r)) \/ Duplicated(Listed(r))) =>
         stats[r].scannedFiles = Cardinality(Versioned(Listed(r)))

\* The invocation found 1.2__a, 2__c and v2.0__c2 and a history with a record:
\* it threw on the two files of version 2.0.0.
C13_Witness ==
  \E r \in Runs :
    /\ pc[r] = "aborted" /\ err[r] = "duplicate"
    /\ Listed(r) = {FileA, FileC, FileTwin}
    /\ SnapHistory(r) # {}

\* How many times x occurs in the sequence.
Occ(seq, x) == Cardinality({i \in DOMAIN seq : seq[i] = x})

\* C14 as stated, for runs with debug: the operation lines printed are those of
\* the counted calls, one line per call, and a claimed call made while the
\* stats are frozen is neither counted nor printed.
C14_FrozenSilent ==
  \A r \in Runs : opts[r].debug =>
    \A k \in Kinds : Occ(console[r].ops, k) = stats[r][CounterOf(k)]

\* C14 amended: a claimed call made while the stats are frozen, the engine's
\* own write of the record or a write of the migration that lands in the
\* window, changes no counter, and its operation line is still handed to log;
\* outside the window every claimed call increments its counter by one and
\* hands its line to log.  The line is printed when debug is set.
C14_FrozenCountsNothing ==
  [][\A r \in Runs :
       LET engine == /\ Len(events'[r]) > Len(events[r])
                     /\ events'[r][Len(events'[r])].e = "append"
           calls(k) == (issued'[r][k] - issued[r][k])
                         + (IF engine /\ k = "set" THEN 1 ELSE 0)
           lines(k) == Occ(console'[r].ops, k) - Occ(console[r].ops, k)
       IN \A k \in Kinds :
            /\ stats'[r][CounterOf(k)] - stats[r][CounterOf(k)]
                 = IF Claimed(r) /\ ~stats[r].frozen THEN calls(k) ELSE 0
            /\ lines(k) = IF Claimed(r) /\ opts[r].debug THEN calls(k) ELSE 0
    ]_vars

\* A run with debug has made the append of its migration; an update the
\* migration had not awaited executed while the stats were frozen.  Neither is
\* counted and both lines are printed.
C14_Witness ==
  \E r \in Runs :
    /\ opts[r].debug /\ pc[r] = "recording" /\ stats[r].frozen
    /\ issued[r]["update"] = 1 /\ stats[r].updated = 0
    /\ stats[r].set = 0
    /\ Occ(console[r].ops, "update") = 1 /\ Occ(console[r].ops, "set") = 1

\* C15 as stated, for runs that are not dry runs, where no commit is
\* suppressed: a call on a batch changes no counter and prints no line, the
\* commit of the batch counts each of its operations exactly once, whenever it
\* is made, and no other step counts a batched operation.
C15_CountedAtCommit ==
  [][\A r \in Runs : ~opts[r].dryrun =>
       LET called == batch'[r].open /\ Len(batch'[r].ops) > Len(batch[r].ops)
           commits == batch[r].open /\ ~batch'[r].open
           flushed(k) == IF commits THEN Occ(batch[r].ops, k) ELSE 0
       IN /\ called => stats'[r] = stats[r] /\ console'[r] = console[r]
          /\ \A k \in Kinds :
               stats'[r][CounterOf(k)] - stats[r][CounterOf(k)]
                 = (issued'[r][k] - issued[r][k]) + flushed(k)
    ]_vars

\* handleCheck of invocation r is waiting for its operations.
Waits(r) == pc[r] \in {"waiting", "woken"}

\* C16: with forceWait, if whenever the session waits the operations of the
\* migration all execute later on, then whenever it waits the history append
\* of the migration is made later on; and the wait is left only with none of
\* them outstanding, so with one that never executes the append is never made.
C16_WaitEnds ==
  /\ \A r \in Runs :
       [](Waits(r) => <>(~Waits(r) \/ ActiveHandles(r) = {}))
         => [](Waits(r) => <>(pc[r] = "recording"))
  /\ [][\A r \in Runs :
          /\ (Waits(r) /\ ~Waits(r)') => (pc'[r] = "grace" /\ ActiveHandles(r) = {})
          /\ (pc[r] = "waiting" /\ ActiveHandles(r) # {} /\ handles' = handles)
               => pc'[r] = "waiting"
     ]_vars

\* The session of a forceWait run logged that it waits, and the append of the
\* migration, which had left two operations behind, was made.
C16_Witness ==
  \E r \in Runs :
    /\ opts[r].forceWait /\ pc[r] = "recording"
    /\ console[r].waiting = 1
    /\ Len(lateScript[CurrentFile(r).filename]) = 2
    /\ ActiveHandles(r) = {}

\* C17 as stated: without debug an invocation prints neither the warning about
\* outstanding operations nor the one about an unversioned file; with debug it
\* prints the former at most once per migration that settled, with the source
\* locations of operations that migration started.
C17_WarningsNeedDebug ==
  \A r \in Runs :
    /\ ~opts[r].debug => console[r].async = <<>> /\ console[r].semver = <<>>
    /\ opts[r].debug =>
         /\ Len(console[r].async) <= Len(Appends(r)) + 1
         /\ \A i \in 1..Len(console[r].async) :
              /\ console[r].async[i] # {}
              /\ \A loc \in console[r].async[i] : loc.n \in 1..Len(lateScript[loc.file])

\* The entries of a directory with a description and no version.
Unversioned(d) == {f \in d : ~f.dot /\ f.vtok = <<>> /\ f.desc # ""}

IsSettle(ev) == ev.e = "settle"

\* C17 amended: the warning about an unversioned file is printed only with
\* debug, once per such file.  The warning about outstanding operations does
\* not depend on debug: an invocation without forceWait prints it when the
\* entry point of a migration settles, once, exactly if operations of the
\* migration are outstanding at that point, scheduled and not yet run or
\* called and not yet resolved, and it lists their source locations; no other
\* step prints it and with forceWait it is never printed.
C17_Warnings ==
  /\ [](\A r \in Runs :
          LET out == console[r] IN
          /\ ~opts[r].debug => out.semver = <<>>
          /\ (opts[r].debug /\ Scanned(r)) =>
               /\ {out.semver[i] : i \in 1..Len(out.semver)} = Unversioned(Listed(r))
               /\ Len(out.semver) = Cardinality(Unversioned(Listed(r)))
          /\ opts[r].forceWait => out.async = <<>>
          /\ Len(out.async) <= Len(SelectSeq(events[r], IsSettle))
          /\ \A i \in 1..Len(out.async) :
               /\ out.async[i] # {}
               /\ \A loc \in out.async[i] : loc.n \in 1..Len(lateScript[loc.file]))
  /\ [][\A r \in Runs :
          LET settles == Len(SelectSeq(events'[r], IsSettle)) > Len(SelectSeq(events[r], IsSettle))
              open == ActiveHandles(r)'
          IN console'[r].async =
               IF settles /\ ~opts[r].forceWait /\ open # {}
               THEN Append(console[r].async, Locations(open))
               ELSE console[r].async
     ]_vars

\* A run without debug and without forceWait made the append of a migration
\* that still has two operations outstanding: it printed one warning, with
\* their two locations, and none about the unversioned file.
C17_Witness ==
  \E r \in Runs :
    /\ ~opts[r].debug /\ ~opts[r].forceWait /\ pc[r] = "recording"
    /\ Cardinality(ActiveHandles(r)) = 2
    /\ Len(console[r].async) = 1 /\ Cardinality(console[r].async[1]) = 2
    /\ console[r].semver = <<>>

\* The records of failed migrations.
Failed(h) == {x \in h : ~x.success}

\* C18: with a single runner the history holds at most one record with
\* success = false, that record has the highest installed_rank, and while the
\* history holds one no step changes the history.
C18_FailedIsLast ==
  /\ [](/\ Cardinality(Failed(history)) <= 1
        /\ \A x \in Failed(history) : MaxRank(history) = {x})
  /\ [][Failed(history) # {} => history' = history]_vars

\* A run recorded a success and a failure, and the next run, with a newer
\* migration to run, was refused.
C18_Witness ==
  /\ err[1] = "first_failure" /\ err[2] = "failed_latest"
  /\ Cardinality(history) = 2
  /\ \E x \in Failed(history) : x.installed_rank = 1
  /\ \E v \in DirVersions(Listed(2)) : \A x \in history : VLess(x.version, v)

\* C19 as stated: in a non-dry run, as long as migrate() has not returned or
\* thrown, every operation of migration code that reached the backend is
\* counted in the RunStats, once, whenever its commit happened.
C19_CommittedIsCounted ==
  \A r \in Runs :
    (InProgress(r) /\ ~opts[r].dryrun) =>
      \A k \in Kinds : stats[r][CounterOf(k)] = committed[r][k]

\* An error raised by the work of invocation r's own migration has surfaced.
OwnError(r) == \E i \in 1..Len(events[r]) : events[r][i].e = "error"

\* C20 as stated, for migrations whose entry point resolves: with several
\* invocations in progress, a migration is taken for failed only after an
\* error of its own invocation surfaced, and as long as none did the session of
\* an invocation keeps both captures it installed, whatever the other
\* invocations raise or close.
C20_CapturesIsolated ==
  \A r \in Runs :
    /\ (pc[r] \in {"readfile", "recording"} /\ ~success[r]) => OwnError(r)
    /\ (InSession(r) /\ ~OwnError(r)) =>
         \A ev \in ProcessEvents : <<r, ev>> \in listeners
====
